---- MODULE Spec2Model ----
(***************************************************************************)
(* A model of temporal-api (klntsky/temporal-api): the calendar-aware      *)
(* RelativeBuilder of src/src/index.ts (lines 551-788), its validation     *)
(* helper assertSafeInt and the entry point fromDate.                      *)
(*                                                                         *)
(* Numbers.  A JavaScript number is an IEEE-754 double.  TLC's integers    *)
(* are 32 bits wide, so an integer-valued double v is kept as two limbs    *)
(*     v = hi * MSDay + lo,   0 <= lo < MSDay,                             *)
(* with MSDay = 86 400 000, the milliseconds of one day.  For an epoch     *)
(* millisecond value hi is the epoch day and lo the millisecond of the     *)
(* day.  Sums that leave the safe-integer range are rounded to the nearest *)
(* double (ties to even), as the machine does.                             *)
(***************************************************************************)
EXTENDS Integers, Sequences, FiniteSets

(* ----------------------------------------------------------------------- *)
(* Constants of the program (MS, src/src/index.ts:112-119)                 *)
(* ----------------------------------------------------------------------- *)
MSSecond == 1000
MSMinute == 60000
MSHour == 3600000
MSDay == 86400000
MSWeek == 604800000

(* ----------------------------------------------------------------------- *)
(* Two-limb integers                                                       *)
(* ----------------------------------------------------------------------- *)
Norm(h, l) == [hi |-> h + (l \div MSDay), lo |-> l % MSDay]

Of(n) == Norm(0, n)

Zero == [hi |-> 0, lo |-> 0]

BAdd(a, b) == Norm(a.hi + b.hi, a.lo + b.lo)

BNeg(a) == Norm(-a.hi, -a.lo)

BSub(a, b) == Norm(a.hi - b.hi, a.lo - b.lo)

BLt(a, b) == a.hi < b.hi \/ (a.hi = b.hi /\ a.lo < b.lo)

BLe(a, b) == a.hi < b.hi \/ (a.hi = b.hi /\ a.lo <= b.lo)

BAbs(a) == IF a.hi < 0 THEN BNeg(a) ELSE a

BSign(a) == IF a.hi < 0 THEN -1 ELSE IF a = Zero THEN 0 ELSE 1

(* hi * MSDay + lo as one TLC integer; only for |a| < 2^31, see IsSmall. *)
ToInt(a) == a.hi * MSDay + a.lo

IsSmall(a) == a.hi >= -3 /\ a.hi <= 2

(* Powers of two around the safe-integer range, as limbs. *)
Pow53 == [hi |-> 104249991, lo |-> 32340992]
Pow54 == [hi |-> 208499982, lo |-> 64681984]
Pow55 == [hi |-> 416999965, lo |-> 42963968]
Pow56 == [hi |-> 833999930, lo |-> 85927936]

(* Number.MAX_SAFE_INTEGER = 2^53 - 1 *)
MaxSafe == BSub(Pow53, Of(1))

(* The spacing of the doubles at magnitude m (1 inside the safe range). *)
Ulp(m) ==
  IF BLt(m, Pow53) THEN 1
  ELSE IF BLt(m, Pow54) THEN 2
  ELSE IF BLt(m, Pow55) THEN 4
  ELSE IF BLt(m, Pow56) THEN 8
  ELSE 16

(* The double nearest to the integer v, ties to the even significand.      *)
(* MSDay is a multiple of 2^10, so v mod ulp is lo mod ulp.                *)
RoundPick(r, u, down, up) ==
  IF 2 * r < u THEN down
  ELSE IF 2 * r > u THEN up
  ELSE IF (down.lo \div u) % 2 = 0 THEN down ELSE up

RoundTo(v, u) ==
  IF v.lo % u = 0 THEN v
  ELSE RoundPick(v.lo % u, u, Norm(v.hi, v.lo - (v.lo % u)),
                 Norm(v.hi, v.lo - (v.lo % u) + u))

RoundDouble(v) == RoundTo(v, Ulp(BAbs(v)))

(* The double sum a + b, difference a - b and product 7 * a. *)
FAdd(a, b) == RoundDouble(BAdd(a, b))

FSub(a, b) == RoundDouble(BSub(a, b))

FMul7(a) == RoundDouble(Norm(7 * a.hi, 7 * a.lo))

(* ----------------------------------------------------------------------- *)
(* The calendar engine (Temporal, ISO 8601 calendar, UTC)                  *)
(* A PlainDateTime is [ok, year, month, day, ms]: ms is the millisecond of *)
(* the day; ok = FALSE is the engine's RangeError.                         *)
(* ----------------------------------------------------------------------- *)
(* A leap year every fourth year, as in the Julian calendar. *)
IsLeapJulian(y) == y % 4 = 0

IsLeap(y) == (y % 4 = 0 /\ y % 100 # 0) \/ y % 400 = 0

DaysInMonth(y, m) ==
  IF m = 2 THEN (IF IsLeap(y) THEN 29 ELSE 28)
  ELSE IF m \in {4, 6, 9, 11} THEN 30 ELSE 31

(* Days from 1970-01-01 to the civil date y-m-d (proleptic Gregorian):     *)
(* yy is the year that starts in March, mp the month counted from March.   *)
DaysFromMarch(yy, mp, d) ==
  (yy \div 400) * 146097 + (yy % 400) * 365 + ((yy % 400) \div 4)
    - ((yy % 400) \div 100) + ((153 * mp + 2) \div 5) + d - 1 - 719468

EpochDay(y, m, d) ==
  DaysFromMarch(IF m <= 2 THEN y - 1 ELSE y, IF m > 2 THEN m - 3 ELSE m + 9, d)

(* The civil date of an epoch day, by the same 400-year eras. *)
CivilOfMonth(y, m, d) ==
  [year |-> IF m <= 2 THEN y + 1 ELSE y, month |-> m, day |-> d]

CivilOfMp(y, doy, mp) ==
  CivilOfMonth(y, IF mp < 10 THEN mp + 3 ELSE mp - 9,
               doy - ((153 * mp + 2) \div 5) + 1)

CivilOfDoy(y, doy) == CivilOfMp(y, doy, (5 * doy + 2) \div 153)

CivilOfYoe(era, doe, yoe) ==
  CivilOfDoy(yoe + era * 400, doe - (365 * yoe + (yoe \div 4) - (yoe \div 100)))

CivilOfEra(era, doe) ==
  CivilOfYoe(era, doe,
             (doe - (doe \div 1460) + (doe \div 36524) - (doe \div 146096)) \div 365)

CivilFromDay(z) == CivilOfEra((z + 719468) \div 146097, (z + 719468) % 146097)

RangeError == [ok |-> FALSE, year |-> 0, month |-> 0, day |-> 0, ms |-> 0]

Plain(c, t) ==
  [ok |-> TRUE, year |-> c.year, month |-> c.month, day |-> c.day, ms |-> t]

(* The range of Temporal.PlainDateTime: one day around +-10^8 days. *)
PlainWithinLimits(eday, ms) ==
  \/ eday = -100000001 /\ ms > 0
  \/ eday >= -100000000 /\ eday <= 100000000

(* The range of Temporal.Instant and of Date: +-8.64e15 ms. *)
InstantWithinLimits(e) ==
  \/ e.hi >= -100000000 /\ e.hi < 100000000
  \/ e.hi = 100000000 /\ e.lo = 0

(* A day beyond the calendar's range held at the nearest day within it. *)
PlainFromDaySaturating(eday, t) ==
  IF PlainWithinLimits(eday, t) THEN Plain(CivilFromDay(eday), t)
  ELSE IF eday < 0 THEN Plain(CivilFromDay(-100000000), t)
  ELSE Plain(CivilFromDay(100000000), t)

PlainFromDay(eday, t) ==
  IF PlainWithinLimits(eday, t) THEN Plain(CivilFromDay(eday), t) ELSE RangeError

(* Instant.fromEpochMilliseconds(e).toZonedDateTimeISO('UTC')              *)
(*   .toPlainDateTime(), for a valid instant e.                            *)
PlainFromEpoch(e) == PlainFromDay(e.hi, e.lo)

DayOf(d) == EpochDay(d.year, d.month, d.day)

(* plain.toZonedDateTime('UTC').toInstant().epochMilliseconds; the         *)
(* instant must be in range, else RangeError ([ok |-> FALSE]).             *)
InstantOf(e) ==
  IF InstantWithinLimits(e) THEN [ok |-> TRUE, v |-> e] ELSE [ok |-> FALSE, v |-> Zero]

EpochFromPlain(p) ==
  IF p.ok THEN InstantOf([hi |-> DayOf(p), lo |-> p.ms]) ELSE [ok |-> FALSE, v |-> Zero]

ConstrainDay(y, m, d) == IF d > DaysInMonth(y, m) THEN DaysInMonth(y, m) ELSE d

(* The balanced month with the day left to overflow into the months after. *)
DateOfMonthsOverflow(tot, d) ==
  CivilFromDay(EpochDay(tot \div 12, (tot % 12) + 1, 1) + d - 1)

(* AddISODate(y, m, d, years, months, 0, 0, 'constrain') on a bare date:   *)
(* balance the month (tot counts months from year 0), then constrain the   *)
(* day to the month's length.                                              *)
DateOfMonths(tot, d) ==
  [year |-> tot \div 12, month |-> (tot % 12) + 1,
   day |-> ConstrainDay(tot \div 12, (tot % 12) + 1, d)]

DateAddYM(d, years, months) ==
  DateOfMonths(d.year * 12 + (d.month - 1) + years * 12 + months, d.day)

PlainOfDate(c, t) ==
  IF c.year >= -280000 /\ c.year <= 280000 /\ PlainWithinLimits(DayOf(c), t)
  THEN Plain(c, t) ELSE RangeError

(* Years added as 365 days each. *)
AddYearsAsDays(p, years, months) ==
  PlainFromDay(DayOf(DateAddYM(p, 0, months)) + 365 * years, p.ms)

AddYearsMonths(p, years, months) == PlainOfDate(DateAddYM(p, years, months), p.ms)

(* Whole days q and a time-of-day carry r (ms) added to a date-time. *)
AddDaysMs(p, q, r) ==
  PlainFromDay(DayOf(p) + q + ((p.ms + r) \div MSDay), (p.ms + r) % MSDay)

(* PlainDateTime.prototype.add({ [unit]: v }) for one unit, v an integer   *)
(* double in limbs.  A magnitude that can only leave the representable     *)
(* range is answered before any 32-bit arithmetic on it.                   *)
PlainAdd(p, unit, v) ==
  IF ~p.ok THEN RangeError
  ELSE CASE unit = "years" ->
              IF IsSmall(v) /\ ToInt(v) >= -600000 /\ ToInt(v) <= 600000
              THEN AddYearsMonths(p, ToInt(v), 0) ELSE RangeError
         [] unit = "months" ->
              IF IsSmall(v) /\ ToInt(v) >= -7000000 /\ ToInt(v) <= 7000000
              THEN AddYearsMonths(p, 0, ToInt(v)) ELSE RangeError
         [] unit = "days" ->
              IF IsSmall(v) THEN AddDaysMs(p, ToInt(v), 0) ELSE RangeError
         [] unit = "hours" ->
              IF v.hi >= -100 /\ v.hi <= 100
              THEN AddDaysMs(p, v.hi * (MSDay \div 24) + (v.lo \div 24),
                             (v.lo % 24) * MSHour)
              ELSE RangeError
         [] unit = "minutes" ->
              IF v.hi >= -5000 /\ v.hi <= 5000
              THEN AddDaysMs(p, v.hi * (MSDay \div 1440) + (v.lo \div 1440),
                             (v.lo % 1440) * MSMinute)
              ELSE RangeError
         [] unit = "seconds" ->
              IF v.hi >= -300000 /\ v.hi <= 300000
              THEN AddDaysMs(p, v.hi * (MSDay \div 86400) + (v.lo \div 86400),
                             (v.lo % 86400) * MSSecond)
              ELSE RangeError
         [] unit = "milliseconds" ->
              IF v.hi >= -250000000 /\ v.hi <= 250000000
              THEN AddDaysMs(p, v.hi, v.lo) ELSE RangeError

Sgn(n) == IF n < 0 THEN -1 ELSE IF n = 0 THEN 0 ELSE 1

DateOf(p) == [year |-> p.year, month |-> p.month, day |-> p.day]

(* CompareISODate *)
CompareISODate(a, b) == Sgn(DayOf(a) - DayOf(b))

(* DifferenceISODate(start, end, largestUnit = 'month'): whole months and  *)
(* the days left over, in the engine's steps.  sign is the direction of    *)
(* the difference; mid is start plus the years and months counted so far.  *)
DiffDays(e, sign, years, months, mid) ==
  [months |-> months + years * 12,
   days |-> IF mid.month = e.month THEN e.day - mid.day
            ELSE IF sign < 0
            THEN (-mid.day) - (DaysInMonth(e.year, e.month) - e.day)
            ELSE e.day + (DaysInMonth(mid.year, mid.month) - mid.day)]

DiffBackUp(s, e, sign, years, months) ==
  DiffDays(e, sign, years, months, DateAddYM(s, years, months))

DiffMonths(s, e, sign, years, months, mid) ==
  IF CompareISODate(mid, e) = 0 THEN [months |-> months + years * 12, days |-> 0]
  ELSE IF -CompareISODate(mid, e) # sign
  THEN (IF months - sign = -sign
        THEN DiffBackUp(s, e, sign, years - sign, 11 * sign)
        ELSE DiffBackUp(s, e, sign, years, months - sign))
  ELSE DiffDays(e, sign, years, months, mid)

DiffYearsMonths(s, e, sign, years, months) ==
  DiffMonths(s, e, sign, years, months, DateAddYM(s, years, months))

DiffYears(s, e, sign, years, midSign) ==
  IF midSign = 0 THEN [months |-> years * 12, days |-> 0]
  ELSE IF midSign # sign
  THEN DiffYearsMonths(s, e, sign, years - sign, (e.month - s.month) + sign * 12)
  ELSE DiffYearsMonths(s, e, sign, years, e.month - s.month)

(* The difference of the month numbers, and of the days of the month. *)
DifferenceByFields(s, e) ==
  [months |-> (e.year - s.year) * 12 + (e.month - s.month), days |-> e.day - s.day]

DifferenceISODate(s, e) ==
  IF CompareISODate(s, e) = 0 THEN [months |-> 0, days |-> 0]
  ELSE DiffYears(s, e, -CompareISODate(s, e), e.year - s.year,
                 -CompareISODate(DateAddYM(s, e.year - s.year, 0), e))

(* a.until(b, { largestUnit }) for largestUnit 'months' or 'days'          *)
(* (DifferenceISODateTime): the time difference first; when it and the     *)
(* date difference disagree in sign a day moves from the date part to the  *)
(* time part; then the date difference; then days and time are balanced.   *)
(* Both arguments are valid date-times of millisecond precision.           *)
DurationOf(months, days, sg, mag) ==
  [years |-> 0, months |-> months, days |-> days,
   hours |-> sg * (mag \div MSHour),
   minutes |-> sg * ((mag % MSHour) \div MSMinute),
   seconds |-> sg * ((mag % MSMinute) \div MSSecond),
   milliseconds |-> sg * (mag % MSSecond)]

Duration(months, days, time) == DurationOf(months, days, Sgn(time), Sgn(time) * time)

BalanceDuration(dd, time) ==
  IF dd.days > 0 /\ time < 0 THEN Duration(dd.months, dd.days - 1, time + MSDay)
  ELSE IF dd.days < 0 /\ time > 0 THEN Duration(dd.months, dd.days + 1, time - MSDay)
  ELSE Duration(dd.months, dd.days, time)

DateUntil(date1, date2, largestUnit, time) ==
  IF largestUnit = "months"
  THEN BalanceDuration(DifferenceISODate(date1, date2), time)
  ELSE BalanceDuration([months |-> 0, days |-> DayOf(date2) - DayOf(date1)], time)

DateTimeUntil(a, b, largestUnit, timeSign, dateSign) ==
  IF dateSign = -timeSign
  THEN DateUntil(CivilFromDay(DayOf(a) - timeSign), DateOf(b), largestUnit,
                 (b.ms - a.ms) - timeSign * MSDay)
  ELSE DateUntil(DateOf(a), DateOf(b), largestUnit, b.ms - a.ms)

PlainUntil(a, b, largestUnit) ==
  DateTimeUntil(a, b, largestUnit, Sgn(b.ms - a.ms),
                CompareISODate(DateOf(b), DateOf(a)))

(* ----------------------------------------------------------------------- *)
(* JavaScript numbers given as arguments: [k, i, f] with k the class       *)
(* ("nan", "inf", "ninf", "fin"), i the integer part (limbs) and f the     *)
(* fractional part in hundredths (0 for an integer).                       *)
(* ----------------------------------------------------------------------- *)
undefined == [k |-> "undefined", i |-> Zero, f |-> 0]

NaN == [k |-> "nan", i |-> Zero, f |-> 0]

PosInf == [k |-> "inf", i |-> Zero, f |-> 0]

NegInf == [k |-> "ninf", i |-> Zero, f |-> 0]

Num(n) == [k |-> "fin", i |-> Of(n), f |-> 0]

NumOf(b) == [k |-> "fin", i |-> b, f |-> 0]

Frac(n, h) == [k |-> "fin", i |-> Of(n), f |-> h]

isFinite(v) == v.k = "fin"

isInteger(v) == isFinite(v) /\ v.f = 0

isSafeInteger(v) == isInteger(v) /\ BLe(BAbs(v.i), MaxSafe)

Ok == [ok |-> TRUE, caller |-> "", msg |-> ""]

Throw(caller, msg) == [ok |-> FALSE, caller |-> caller, msg |-> msg]

(* The checks without the one for decimals. *)
assertSafeIntNoDecimals(value, caller) ==
  IF ~isFinite(value) THEN Throw(caller, "value must be a finite integer")
  ELSE IF ~isSafeInteger(value) THEN Throw(caller, "value exceeds safe integer range")
  ELSE Ok

(* assertSafeInt(value, caller): the error it throws, or Ok. *)
assertSafeInt(value, caller) ==
  IF ~isFinite(value) THEN Throw(caller, "value must be a finite integer")
  ELSE IF ~isInteger(value) THEN Throw(caller, "value must be an integer (no decimals)")
  ELSE IF ~isSafeInteger(value) THEN Throw(caller, "value exceeds safe integer range")
  ELSE Ok

(* ----------------------------------------------------------------------- *)
(* RelativeBuilder                                                         *)
(* ----------------------------------------------------------------------- *)
Units == {"years", "months", "weeks", "days", "hours", "minutes", "seconds",
          "milliseconds"}

offsetOrder == <<"years", "months", "days", "hours", "minutes", "seconds",
                 "milliseconds">>

ZERO == [years |-> Zero, months |-> Zero, days |-> Zero, hours |-> Zero,
         minutes |-> Zero, seconds |-> Zero, milliseconds |-> Zero]

(* new RelativeBuilder(anchor: Date): the instant's UTC civil date-time    *)
(* and the instant itself.                                                 *)
RelativeBuilderFromDate(time) ==
  [anchorPlain |-> PlainFromEpoch(time), anchorMs |-> time, off |-> ZERO]

(* new RelativeBuilder(anchor: PlainDateTime, off): the epoch milliseconds *)
(* are computed again from the civil date-time.                            *)
RelativeBuilder(anchor, off) ==
  [anchorPlain |-> anchor, anchorMs |-> EpochFromPlain(anchor).v, off |-> off]

(* plus with the patch alone, the receiver's other offsets dropped. *)
plusPatchOnly(b, unit, v) == RelativeBuilder(b.anchorPlain, [ZERO EXCEPT ![unit] = v])

(* plus({ [unit]: v }): { ...this.off, ...patch } on a new builder. *)
plus(b, unit, v) == RelativeBuilder(b.anchorPlain, [b.off EXCEPT ![unit] = v])

RECURSIVE ApplyOffsets(_, _, _)
ApplyOffsets(off, result, i) ==
  IF i > Len(offsetOrder) THEN result
  ELSE LET unit == offsetOrder[i]
           value == off[unit]
       IN ApplyOffsets(off,
                       IF value # Zero THEN PlainAdd(result, unit, value) ELSE result,
                       i + 1)

(* Offsets of both signs. *)
MixedSigns(off) ==
  /\ \E i \in DOMAIN offsetOrder : BSign(off[offsetOrder[i]]) > 0
  /\ \E i \in DOMAIN offsetOrder : BSign(off[offsetOrder[i]]) < 0

(* All the offsets in one add, which the engine rejects for mixed signs. *)
targetPlainOneAdd(b) ==
  IF MixedSigns(b.off) THEN RangeError ELSE ApplyOffsets(b.off, b.anchorPlain, 1)

(* targetPlain(): the offsets applied to the anchor, unit by unit. *)
targetPlain(b) == ApplyOffsets(b.off, b.anchorPlain, 1)

(* deltaMs(): [ok, v]; ok = FALSE when the engine throws. *)
DeltaFrom(tgt, anchorMs) ==
  IF tgt.ok THEN [ok |-> TRUE, v |-> FSub(tgt.v, anchorMs)]
  ELSE [ok |-> FALSE, v |-> Zero]

deltaMs(b) == DeltaFrom(EpochFromPlain(targetPlain(b)), b.anchorMs)

(* a & b on 32-bit integers, in place of a | b. *)
RECURSIVE BitAnd(_, _)
BitAnd(a, b) ==
  IF a = 0 \/ b = 0 THEN 0
  ELSE IF a = -1 THEN b
  ELSE IF b = -1 THEN a
  ELSE 2 * BitAnd(a \div 2, b \div 2) + (IF a % 2 = 1 /\ b % 2 = 1 THEN 1 ELSE 0)

(* a | b on 32-bit integers (two's complement), for small operands. *)
RECURSIVE BitOr(_, _)
BitOr(a, b) ==
  IF a = 0 THEN b
  ELSE IF b = 0 THEN a
  ELSE IF a = -1 \/ b = -1 THEN -1
  ELSE 2 * BitOr(a \div 2, b \div 2) + (IF a % 2 = 1 \/ b % 2 = 1 THEN 1 ELSE 0)

(* A value a getter returns: the number                                    *)
(*   (whole + (fracDays * MSDay + fracMs) / (dim * MSDay)) / den           *)
(* for months() and years(), where dim = 0 says that no fraction was       *)
(* added; and num / den for the others.  ok = FALSE: the engine threw.     *)
Failed == [ok |-> FALSE]

Quot(num, den) == [ok |-> TRUE, num |-> num, den |-> den]

Months(whole, fracDays, fracMs, dim, den) ==
  [ok |-> TRUE, whole |-> whole, fracDays |-> fracDays, fracMs |-> fracMs,
   dim |-> dim, den |-> den]

(* monthsFraction(), its result divided by den: the remainder branch      *)
(* (rem, dim of anchorPlusWhole), the test of the difference, the target.  *)
MonthsRem(whole, rem, dim, den) ==
  Months(whole, rem.days,
         rem.hours * MSHour + rem.minutes * MSMinute + rem.seconds * MSSecond
           + rem.milliseconds,
         dim, den)

(* The remainder over the days of the month after anchorPlusWhole's. *)
MonthsFracNext(whole, anchorPlusWhole, target, den) ==
  IF ~anchorPlusWhole.ok THEN Failed
  ELSE MonthsRem(whole, PlainUntil(anchorPlusWhole, target, "days"),
                 DaysInMonth(DateAddYM(anchorPlusWhole, 0, 1).year,
                             DateAddYM(anchorPlusWhole, 0, 1).month), den)

MonthsFrac(whole, anchorPlusWhole, target, den) ==
  IF ~anchorPlusWhole.ok THEN Failed
  ELSE MonthsRem(whole, PlainUntil(anchorPlusWhole, target, "days"),
                 DaysInMonth(anchorPlusWhole.year, anchorPlusWhole.month), den)

MonthsOfDiff(b, target, diff, whole, den) ==
  IF BitOr(BitOr(BitOr(BitOr(diff.days, diff.hours), diff.minutes), diff.seconds),
           diff.milliseconds) # 0
  THEN MonthsFrac(whole, PlainAdd(b.anchorPlain, "months", Of(whole)), target, den)
  ELSE Months(whole, 0, 0, 0, den)

MonthsUntil(b, target, diff, den) ==
  MonthsOfDiff(b, target, diff, diff.years * 12 + diff.months, den)

MonthsTo(b, target, den) ==
  IF ~target.ok THEN Failed
  ELSE MonthsUntil(b, target, PlainUntil(b.anchorPlain, target, "months"), den)

monthsOver(b, den) == MonthsTo(b, targetPlain(b), den)

monthsFraction(b) == monthsOver(b, 1)

(* The months, not divided. *)
yearsFractionInMonths(b) == monthsOver(b, 1)

yearsFraction(b) == monthsOver(b, 12)

QuotOf(d, den) == IF d.ok THEN Quot(d.v, den) ELSE Failed

deltaOver(b, den) == QuotOf(deltaMs(b), den)

TimestampOf(d, anchorMs) == IF d.ok THEN Quot(FAdd(d.v, anchorMs), 1) ELSE Failed

timestamp(b) == TimestampOf(deltaMs(b), b.anchorMs)

(* What a call returns: a number, a builder, or a thrown error. *)
RetValue(v) ==
  IF v.ok THEN [kind |-> "value", val |-> v]
  ELSE [kind |-> "throw", caller |-> "Temporal", msg |-> "RangeError"]

RetBuilder(b) == [kind |-> "builder", b |-> b]

RetThrow(e) == [kind |-> "throw", caller |-> e.caller, msg |-> e.msg]

(* The unit methods: a getter when n is undefined, else a setter. *)
years(b, n) ==
  IF n = undefined THEN RetValue(yearsFraction(b))
  ELSE IF ~assertSafeInt(n, "years").ok THEN RetThrow(assertSafeInt(n, "years"))
  ELSE RetBuilder(plus(b, "years", FAdd(b.off.years, n.i)))

months(b, n) ==
  IF n = undefined THEN RetValue(monthsFraction(b))
  ELSE IF ~assertSafeInt(n, "months").ok THEN RetThrow(assertSafeInt(n, "months"))
  ELSE RetBuilder(plus(b, "months", FAdd(b.off.months, n.i)))

weeks(b, n) ==
  IF n = undefined THEN RetValue(deltaOver(b, MSWeek))
  ELSE IF ~assertSafeInt(n, "weeks").ok THEN RetThrow(assertSafeInt(n, "weeks"))
  ELSE RetBuilder(plus(b, "days", FAdd(b.off.days, FMul7(n.i))))

days(b, n) ==
  IF n = undefined THEN RetValue(deltaOver(b, MSDay))
  ELSE IF ~assertSafeInt(n, "days").ok THEN RetThrow(assertSafeInt(n, "days"))
  ELSE RetBuilder(plus(b, "days", FAdd(b.off.days, n.i)))

hours(b, n) ==
  IF n = undefined THEN RetValue(deltaOver(b, MSHour))
  ELSE IF ~assertSafeInt(n, "hours").ok THEN RetThrow(assertSafeInt(n, "hours"))
  ELSE RetBuilder(plus(b, "hours", FAdd(b.off.hours, n.i)))

minutes(b, n) ==
  IF n = undefined THEN RetValue(deltaOver(b, MSMinute))
  ELSE IF ~assertSafeInt(n, "minutes").ok THEN RetThrow(assertSafeInt(n, "minutes"))
  ELSE RetBuilder(plus(b, "minutes", FAdd(b.off.minutes, n.i)))

seconds(b, n) ==
  IF n = undefined THEN RetValue(deltaOver(b, MSSecond))
  ELSE IF ~assertSafeInt(n, "seconds").ok THEN RetThrow(assertSafeInt(n, "seconds"))
  ELSE RetBuilder(plus(b, "seconds", FAdd(b.off.seconds, n.i)))

milliseconds(b, n) ==
  IF n = undefined THEN RetValue(deltaOver(b, 1))
  ELSE IF ~assertSafeInt(n, "milliseconds").ok
  THEN RetThrow(assertSafeInt(n, "milliseconds"))
  ELSE RetBuilder(plus(b, "milliseconds", FAdd(b.off.milliseconds, n.i)))

(* b.<unit>(n) *)
Method(b, unit, n) ==
  CASE unit = "years" -> years(b, n)
    [] unit = "months" -> months(b, n)
    [] unit = "weeks" -> weeks(b, n)
    [] unit = "days" -> days(b, n)
    [] unit = "hours" -> hours(b, n)
    [] unit = "minutes" -> minutes(b, n)
    [] unit = "seconds" -> seconds(b, n)
    [] unit = "milliseconds" -> milliseconds(b, n)

(* ----------------------------------------------------------------------- *)
(* fromDate                                                                *)
(* ----------------------------------------------------------------------- *)
(* The largest time value of a Date: 8.64e15 ms = 10^8 days. *)
MaxTime == [hi |-> 100000000, lo |-> 0]

(* new Date(v) that keeps every finite integer as the time value. *)
NewDateUnclipped(v) == IF isFinite(v) THEN NumOf(v.i) ELSE NaN

(* new Date(v) for a number v: its time value (TimeClip), NaN when v is    *)
(* not finite or beyond +-8.64e15.                                         *)
NewDate(v) ==
  IF isFinite(v) /\ BLe(BAbs(v.i), MaxTime) /\ (v.f = 0 \/ BLt(BAbs(v.i), MaxTime))
  THEN NumOf(v.i) ELSE NaN

(* A string argument: a date-time in the ISO format of ECMAScript with the *)
(* offset Z or a date alone (both UTC), written by its fields, or a text   *)
(* with no date in it.                                                     *)
ISO(y, m, d, t) == [iso |-> TRUE, year |-> y, month |-> m, day |-> d, time |-> t]

NotADate == [iso |-> FALSE, year |-> 0, month |-> 0, day |-> 0, time |-> 0]

(* The parse with the fields read as local time one hour east of UTC. *)
DateParseLocal(str) ==
  IF str.iso /\ str.month \in 1..12 /\ str.day \in 1..DaysInMonth(str.year, str.month)
       /\ str.time \in 0..MSDay
  THEN NumOf(Norm(EpochDay(str.year, str.month, str.day), str.time - MSHour))
  ELSE NaN

(* new Date(str): the time value of the instant the fields name, NaN when  *)
(* a field is out of its range or the text is no date.  (A day beyond the  *)
(* month's length but at most 31 is NaN in ECMAScript; engines differ, and *)
(* no input here has one.)                                                 *)
DateParse(str) ==
  IF str.iso /\ str.month \in 1..12 /\ str.day \in 1..DaysInMonth(str.year, str.month)
       /\ str.time \in 0..MSDay
  THEN NumOf(Norm(EpochDay(str.year, str.month, str.day), str.time))
  ELSE NaN

(* fromDate(d): d.type is "Date" (d.num its time value), "number" (d.num), *)
(* "string" (d.str) or "other" (neither a Date, a number nor a string).    *)
(* An invalid Date taken as the epoch in place of the error. *)
DateToBuilderLenient(date) ==
  IF date = NaN THEN RetBuilder(RelativeBuilderFromDate(Zero))
  ELSE RetBuilder(RelativeBuilderFromDate(date.i))

DateToBuilder(date) ==
  IF date = NaN THEN RetThrow(Throw("fromDate", "Invalid date input"))
  ELSE RetBuilder(RelativeBuilderFromDate(date.i))

fromDate(d) ==
  IF d.type = "number" /\ ~assertSafeInt(d.num, "fromDate").ok
  THEN RetThrow(assertSafeInt(d.num, "fromDate"))
  ELSE IF d.type \notin {"Date", "number", "string"}
  THEN RetThrow(Throw("fromDate",
         "Input must be a Date object, timestamp (number), or ISO date string"))
  ELSE DateToBuilder(NewDate(IF d.type = "string" THEN DateParse(d.str) ELSE d.num))

(* ----------------------------------------------------------------------- *)
(* DurationBuilder (src/unnamed/part_000) and its factories                *)
(* Its numbers may have a fractional part.  A double that is a multiple of *)
(* 1/2 is kept as twice its value in limbs ("halves"); rounding to 53 bits *)
(* is the same on the doubled value.                                       *)
(* ----------------------------------------------------------------------- *)
(* Math.trunc(value) of a finite value i + f/100 (f >= 0). *)
trunc(value) ==
  IF value.f = 0 \/ value.i.hi >= 0 THEN NumOf(value.i)
  ELSE NumOf(BAdd(value.i, Of(1)))

(* The checks with the value itself in place of its integer part. *)
assertFiniteNumberNoTrunc(value, caller) ==
  IF ~isFinite(value) THEN Throw(caller, "value must be a finite number")
  ELSE IF ~isSafeInteger(value) THEN Throw(caller, "absolute value exceeds safe range")
  ELSE Ok

(* assertFiniteNumber(value, caller): the error it throws, or Ok. *)
assertFiniteNumber(value, caller) ==
  IF ~isFinite(value) THEN Throw(caller, "value must be a finite number")
  ELSE IF ~isSafeInteger(trunc(value))
  THEN Throw(caller, "absolute value exceeds safe range")
  ELSE Ok

(* Twice the value of n, for n an integer or an integer and a half. *)
Halves(n) ==
  IF n.f = 0 THEN Norm(2 * n.i.hi, 2 * n.i.lo)
  ELSE BAdd(Norm(2 * n.i.hi, 2 * n.i.lo), Of(1))

(* The accepted arguments whose products with the MS factors the limbs     *)
(* hold: any safe integer with factor 1, and magnitudes below 10^6         *)
(* otherwise.                                                              *)
Representable(n, factor) ==
  /\ n.f \in {0, 50}
  /\ factor = 1 \/ BLt(BAbs(n.i), Of(1000000))

(* p * k for a small k, and p times the MS factors. *)
Times(p, k) == Norm(p.hi * k, p.lo * k)

TimesSecond(p) == Times(Times(Times(p, 10), 10), 10)

TimesMinute(p) == Times(Times(TimesSecond(p), 10), 6)

TimesHour(p) == Times(Times(TimesMinute(p), 10), 6)

TimesDay(p) == Times(TimesHour(p), 24)

(* p times the length of a week of five days. *)
TimesWorkWeek(p) == Times(TimesDay(p), 5)

TimesWeek(p) == Times(TimesDay(p), 7)

(* The double product n * factor, in halves. *)
FMul(n, factor) ==
  RoundDouble(CASE factor = 1 -> Halves(n)
                [] factor = MSSecond -> TimesSecond(Halves(n))
                [] factor = MSMinute -> TimesMinute(Halves(n))
                [] factor = MSHour -> TimesHour(Halves(n))
                [] factor = MSDay -> TimesDay(Halves(n))
                [] factor = MSWeek -> TimesWeek(Halves(n)))

DurationUnits == {"weeks", "days", "hours", "minutes", "seconds", "milliseconds"}

(* MS[unit] *)
MS(unit) ==
  CASE unit = "weeks" -> MSWeek
    [] unit = "days" -> MSDay
    [] unit = "hours" -> MSHour
    [] unit = "minutes" -> MSMinute
    [] unit = "seconds" -> MSSecond
    [] unit = "milliseconds" -> 1

(* new DurationBuilder(): total = 0 (in halves). *)
DurationBuilder == [total |-> Zero]

(* add(ms): this.total += ms; the object itself is returned. *)
add(b, ms) == [b EXCEPT !.total = FAdd(b.total, ms)]

(* this.total / MS[unit]: the number (halves / 2) / den. *)
Over(halves, den) == [ok |-> TRUE, halves |-> halves, den |-> den]

(* b.<unit>(n) of a DurationBuilder: a getter when n is undefined, else a  *)
(* setter.  The six methods differ in the unit only.                       *)
DurationMethod(b, unit, n) ==
  IF n = undefined THEN RetValue(Over(b.total, MS(unit)))
  ELSE IF ~assertFiniteNumber(n, unit).ok THEN RetThrow(assertFiniteNumber(n, unit))
  ELSE RetBuilder(add(b, FMul(n, MS(unit))))

(* The factories weeks(n = 1) .. milliseconds(n = 1). *)
Factory(unit, n) ==
  DurationMethod(DurationBuilder, unit, IF n = undefined THEN Num(1) ELSE n)

(* ----------------------------------------------------------------------- *)
(* The state machine: the builders created so far (heap), for each the     *)
(* accepted setter calls that led to it (calls, a history variable), and   *)
(* the outcome of the last call (ret); the DurationBuilder objects created *)
(* so far (dur) and the accepted setter calls made on each (dcalls).       *)
(* ----------------------------------------------------------------------- *)
VARIABLES heap, calls, ret, dur, dcalls

vars == <<heap, calls, ret, dur, dcalls>>

(* Bounds of the model: the builders a run creates, and the builders of    *)
(* a run that chains setters of one unit.                                  *)
MaxHeap == 3
MaxChain == 4

(* The instants the runs are anchored at, as epoch milliseconds:           *)
(* 2021-01-31T00:00Z, 2020-02-29T00:00Z and the first instant of the Date  *)
(* range, -8.64e15.                                                        *)
Jan31 == [hi |-> 18658, lo |-> 0]
Feb29 == [hi |-> 18321, lo |-> 0]
MinTime == BNeg(MaxTime)

DateInputs ==
  {[type |-> "number", num |-> NumOf(t)] : t \in {Jan31, MinTime}}
    \cup {[type |-> "Date", num |-> NumOf(Feb29)], [type |-> "Date", num |-> NaN],
          [type |-> "number", num |-> NaN], [type |-> "number", num |-> Frac(5, 50)],
          [type |-> "number", num |-> NumOf(Pow53)],
          [type |-> "number", num |-> NumOf(MaxSafe)],
          [type |-> "other", num |-> NaN],
          [type |-> "Date", num |-> NumOf(Jan31)],
          [type |-> "string", str |-> ISO(2021, 1, 31, 0)],
          [type |-> "string", str |-> ISO(2021, 13, 1, 0)],
          [type |-> "string", str |-> NotADate]}

(* Arguments no setter accepts. *)
BadArgs == {NaN, PosInf, NegInf, Frac(2, 70), NumOf(Pow53), NumOf(BNeg(Pow53))}

(* The arguments the setters are called with. *)
ArgsOf(unit) ==
  BadArgs \cup
  CASE unit = "years" -> {Num(-1), Num(1)}
    [] unit = "months" -> {Num(-3), Num(1), NumOf(MaxSafe)}
    [] unit = "weeks" -> {Num(-2), NumOf(MaxSafe)}
    [] unit = "days" -> {Num(2)}
    [] unit = "hours" -> {Num(36)}
    [] unit = "minutes" -> {Num(-30)}
    [] unit = "seconds" -> {Num(-45)}
    [] unit = "milliseconds" -> {Num(-500), NumOf(MaxSafe)}

(* The arguments of a chain of milliseconds(n) calls. *)
ChainArgs == {NumOf(MaxSafe), NumOf(BNeg(MaxSafe)), Num(2)}

Init ==
  /\ heap = <<>>
  /\ calls = <<>>
  /\ ret = [kind |-> "none"]
  /\ dur = <<>>
  /\ dcalls = <<>>

(* The receiver overwritten and returned, in place of a new builder. *)
ReturnsInPlace(r, op, recv, arg, hist) ==
  /\ IF r.kind = "builder"
       THEN /\ heap' = IF recv \in DOMAIN heap THEN [heap EXCEPT ![recv] = r.b]
                       ELSE Append(heap, r.b)
            /\ calls' = IF recv \in DOMAIN heap THEN [calls EXCEPT ![recv] = hist]
                        ELSE Append(calls, hist)
            /\ ret' = [kind |-> "builder", op |-> op, recv |-> recv, arg |-> arg,
                       id |-> IF recv \in DOMAIN heap THEN recv ELSE Len(heap) + 1]
       ELSE /\ ret' = IF r.kind = "value"
                      THEN [kind |-> "value", op |-> op, recv |-> recv, val |-> r.val]
                      ELSE [kind |-> "throw", op |-> op, recv |-> recv, arg |-> arg,
                            caller |-> r.caller, msg |-> r.msg]
            /\ UNCHANGED <<heap, calls>>
  /\ UNCHANGED <<dur, dcalls>>

(* A call's outcome goes to ret; a builder it returns is a new object on  *)
(* the heap, with the calls that led to it.                                *)
Returns(r, op, recv, arg, hist) ==
  /\ IF r.kind = "builder"
       THEN /\ heap' = Append(heap, r.b)
            /\ calls' = Append(calls, hist)
            /\ ret' = [kind |-> "builder", op |-> op, recv |-> recv, arg |-> arg,
                       id |-> Len(heap) + 1]
       ELSE /\ ret' = IF r.kind = "value"
                      THEN [kind |-> "value", op |-> op, recv |-> recv, val |-> r.val]
                      ELSE [kind |-> "throw", op |-> op, recv |-> recv, arg |-> arg,
                            caller |-> r.caller, msg |-> r.msg]
            /\ UNCHANGED <<heap, calls>>
  /\ UNCHANGED <<dur, dcalls>>

(* const b = fromDate(d) *)
FromDate(d) ==
  /\ Len(heap) = 0
  /\ Returns(fromDate(d), "fromDate", 0, d, <<>>)

(* The offset field a setter of the unit writes. *)
FieldOf(unit) == IF unit = "weeks" THEN "days" ELSE unit

(* const c = heap[i].<unit>(n): the heap has room for cap builders, and    *)
(* the offsets stay below 2^56, where the limbs are exact.                 *)
(* A setter that works on the builder made last, whatever its receiver. *)
SetOnLatest(i, unit, n, cap) ==
  /\ i \in DOMAIN heap
  /\ Len(heap) < cap
  /\ BLt(BAbs(heap[Len(heap)].off[FieldOf(unit)]), Pow55)
  /\ Returns(Method(heap[Len(heap)], unit, n), unit, i, n, Append(calls[i], <<unit, n.i>>))

Set(i, unit, n, cap) ==
  /\ i \in DOMAIN heap
  /\ Len(heap) < cap
  /\ BLt(BAbs(heap[i].off[FieldOf(unit)]), Pow55)
  /\ Returns(Method(heap[i], unit, n), unit, i, n, Append(calls[i], <<unit, n.i>>))

(* A getter that finalizes: it returns its value and clears the offsets of *)
(* the builder it was called on.                                           *)
GetFinalizing(i, unit) ==
  /\ i \in DOMAIN heap
  /\ ret' = IF Method(heap[i], unit, undefined).kind = "value"
            THEN [kind |-> "value", op |-> unit, recv |-> i,
                  val |-> Method(heap[i], unit, undefined).val]
            ELSE [kind |-> "throw", op |-> unit, recv |-> i, arg |-> undefined,
                  caller |-> "Temporal", msg |-> "RangeError"]
  /\ heap' = [heap EXCEPT ![i].off = ZERO]
  /\ UNCHANGED <<calls, dur, dcalls>>

(* heap[i].<unit>() *)
Get(i, unit) ==
  /\ i \in DOMAIN heap
  /\ Returns(Method(heap[i], unit, undefined), unit, i, undefined, <<>>)

(* heap[i].timestamp() *)
Timestamp(i) ==
  /\ i \in DOMAIN heap
  /\ Returns(RetValue(timestamp(heap[i])), "timestamp", i, undefined, <<>>)

Next ==
  \/ \E d \in DateInputs : FromDate(d)
  \/ \E i \in 1..MaxHeap, unit \in Units : \E n \in ArgsOf(unit) : Set(i, unit, n, MaxHeap)
  \/ \E i \in 1..MaxHeap, unit \in Units : Get(i, unit)
  \/ \E i \in 1..MaxHeap : Timestamp(i)

Spec == Init /\ [][Next]_vars

(* Runs that chain up to three milliseconds(n) calls. *)
NextChain ==
  \/ \E d \in DateInputs : FromDate(d)
  \/ \E i \in 1..MaxChain : \E n \in ChainArgs : Set(i, "milliseconds", n, MaxChain)
  \/ \E i \in 1..MaxChain, unit \in Units : Get(i, unit)
  \/ \E i \in 1..MaxChain : Timestamp(i)

SpecChain == Init /\ [][NextChain]_vars

(* Bounds of the runs on DurationBuilder: the objects created and the     *)
(* accepted setter calls in all.                                           *)
MaxDur == 2
MaxDurCalls == 3

(* Runs that call years(n) only: the anchors are 2023-06-15T12:00Z, a leap *)
(* day, and two dates whose next four years include February 2100.        *)
MaxYears == 3

YearInputs ==
  {[type |-> "string", str |-> ISO(2023, 6, 15, 12 * MSHour)],
   [type |-> "string", str |-> ISO(2097, 6, 15, 0)],
   [type |-> "string", str |-> ISO(2096, 2, 29, 0)],
   [type |-> "Date", num |-> NumOf(Feb29)]}

YearArgs == {Num(4), Num(-100), Num(-2)}

NextYears ==
  \/ \E d \in YearInputs : FromDate(d)
  \/ \E i \in 1..MaxYears : \E n \in YearArgs : Set(i, "years", n, MaxYears)
  \/ \E i \in 1..MaxYears, unit \in Units : Get(i, unit)
  \/ \E i \in 1..MaxYears : Timestamp(i)

SpecYears == Init /\ [][NextYears]_vars

(* Arguments no DurationBuilder setter accepts. *)
BadDurationArgs == {NaN, PosInf, NegInf, NumOf(Pow53), NumOf(BNeg(Pow53))}

(* The arguments the DurationBuilder setters are called with. *)
DurationArgsOf(unit) ==
  BadDurationArgs \cup
  CASE unit = "weeks" -> {Num(2), Num(-2)}
    [] unit = "days" -> {Num(7)}
    [] unit = "hours" -> {Frac(1, 50)}
    [] unit = "minutes" -> {Frac(-1, 50)}
    [] unit = "seconds" -> {Num(1)}
    [] unit = "milliseconds" -> {NumOf(MaxSafe), NumOf(BNeg(MaxSafe)), Num(2)}

RECURSIVE Count(_)
Count(hs) == IF hs = <<>> THEN 0 ELSE Len(Head(hs)) + Count(Tail(hs))

(* The outcome of a call when a setter returns a new object and leaves its *)
(* receiver as it was.                                                     *)
DurationReturnsCopy(r, op, recv, arg, call) ==
  /\ IF r.kind = "builder"
       THEN /\ dur' = Append(dur, r.b)
            /\ dcalls' = Append(dcalls, IF recv = 0 THEN <<call>>
                                        ELSE Append(dcalls[recv], call))
            /\ ret' = [kind |-> "builder", op |-> op, recv |-> recv, arg |-> arg,
                       id |-> Len(dur) + 1]
       ELSE /\ ret' = IF r.kind = "value"
                      THEN [kind |-> "value", op |-> op, recv |-> recv, val |-> r.val]
                      ELSE [kind |-> "throw", op |-> op, recv |-> recv, arg |-> arg,
                            caller |-> r.caller, msg |-> r.msg]
            /\ UNCHANGED <<dur, dcalls>>
  /\ UNCHANGED <<heap, calls>>

(* A DurationBuilder call's outcome goes to ret.  A setter's builder is    *)
(* its receiver, changed in place (recv = 0: the factory's new object).    *)
DurationReturns(r, op, recv, arg, call) ==
  /\ IF r.kind = "builder"
       THEN /\ dur' = IF recv = 0 THEN Append(dur, r.b) ELSE [dur EXCEPT ![recv] = r.b]
            /\ dcalls' = IF recv = 0 THEN Append(dcalls, <<call>>)
                         ELSE [dcalls EXCEPT ![recv] = Append(dcalls[recv], call)]
            /\ ret' = [kind |-> "builder", op |-> op, recv |-> recv, arg |-> arg,
                       id |-> IF recv = 0 THEN Len(dur) + 1 ELSE recv]
       ELSE /\ ret' = IF r.kind = "value"
                      THEN [kind |-> "value", op |-> op, recv |-> recv, val |-> r.val]
                      ELSE [kind |-> "throw", op |-> op, recv |-> recv, arg |-> arg,
                            caller |-> r.caller, msg |-> r.msg]
            /\ UNCHANGED <<dur, dcalls>>
  /\ UNCHANGED <<heap, calls>>

(* A factory that keeps one object for all its calls: after the first call *)
(* it adds to that object and returns it.                                  *)
NewDurationShared(unit, n) ==
  /\ Len(dur) < MaxDur
  /\ Count(dcalls) < MaxDurCalls
  /\ n = undefined \/ ~assertFiniteNumber(n, unit).ok \/ Representable(n, MS(unit))
  /\ IF dur = <<>> \/ Factory(unit, n).kind # "builder"
       THEN DurationReturns(Factory(unit, n), unit, 0, n,
                            <<unit, IF n = undefined THEN Num(1) ELSE n>>)
       ELSE /\ BLt(BAbs(dur[1].total), Pow55)
            /\ dur' = [dur EXCEPT ![1] = add(dur[1], Factory(unit, n).b.total)]
            /\ dcalls' = [dcalls EXCEPT
                            ![1] = Append(@, <<unit, IF n = undefined THEN Num(1) ELSE n>>)]
            /\ ret' = [kind |-> "builder", op |-> unit, recv |-> 0, arg |-> n, id |-> 1]
            /\ UNCHANGED <<heap, calls>>

(* const b = <unit>(n), n = undefined for <unit>() *)
NewDuration(unit, n) ==
  /\ Len(dur) < MaxDur
  /\ Count(dcalls) < MaxDurCalls
  /\ n = undefined \/ ~assertFiniteNumber(n, unit).ok \/ Representable(n, MS(unit))
  /\ DurationReturns(Factory(unit, n), unit, 0, n,
                     <<unit, IF n = undefined THEN Num(1) ELSE n>>)

(* dur[i].<unit>(n): the totals stay below 2^55 halves. *)
DurationSet(i, unit, n) ==
  /\ i \in DOMAIN dur
  /\ Count(dcalls) < MaxDurCalls
  /\ ~assertFiniteNumber(n, unit).ok \/ Representable(n, MS(unit))
  /\ BLt(BAbs(dur[i].total), Pow55)
  /\ DurationReturns(DurationMethod(dur[i], unit, n), unit, i, n, <<unit, n>>)

(* dur[i].<unit>() *)
DurationGet(i, unit) ==
  /\ i \in DOMAIN dur
  /\ DurationReturns(DurationMethod(dur[i], unit, undefined), unit, i, undefined, <<>>)

NextDuration ==
  \/ \E unit \in DurationUnits : \E n \in DurationArgsOf(unit) \cup {undefined} :
       NewDuration(unit, n)
  \/ \E i \in 1..MaxDur, unit \in DurationUnits : \E n \in DurationArgsOf(unit) :
       DurationSet(i, unit, n)
  \/ \E i \in 1..MaxDur, unit \in DurationUnits : DurationGet(i, unit)

SpecDuration == Init /\ [][NextDuration]_vars

(* ----------------------------------------------------------------------- *)
(* The claims                                                              *)
(* ----------------------------------------------------------------------- *)
Call(unit, n) == <<unit, Of(n)>>

Getters(b) == [unit \in Units |-> Method(b, unit, undefined)]

(* C1: a setter called with a valid argument returns a builder that is not *)
(* its receiver, and no call changes a builder that exists: its anchor,    *)
(* its seven offsets, and with them what its getters and timestamp()       *)
(* return, stay as they were.                                              *)
C1_SetterReturnsNewBuilder ==
  [][/\ \A i \in DOMAIN heap : i \in DOMAIN heap' /\ heap'[i] = heap[i]
     /\ (ret'.kind = "builder" /\ ret'.op \in Units) =>
          /\ ret'.id \notin DOMAIN heap
          /\ ret'.id # ret'.recv
          /\ heap'[ret'.id].anchorPlain = heap[ret'.recv].anchorPlain
          /\ Getters(heap'[ret'.recv]) = Getters(heap[ret'.recv])
          /\ timestamp(heap'[ret'.recv]) = timestamp(heap[ret'.recv])]_vars

C1_Witness ==
  /\ ret.kind = "builder" /\ ret.op = "hours" /\ ret.recv = 2 /\ ret.id = 3
  /\ heap[2].off # ZERO
  /\ heap[2].off.hours = Zero
  /\ heap[3].off.hours = Of(36)

(* The builder a sequence of setter calls leads to from b. *)
RECURSIVE Replay(_, _)
Replay(b, cs) ==
  IF cs = <<>> THEN b
  ELSE Replay(Method(b, cs[1][1], NumOf(cs[1][2])).b, Tail(cs))

Perms(cs) ==
  {[k \in DOMAIN cs |-> cs[p[k]]] :
     p \in {q \in [DOMAIN cs -> DOMAIN cs] : \A x, y \in DOMAIN cs : q[x] = q[y] => x = y}}

(* C2: the setter calls that led to a builder, made in any other order on  *)
(* the same anchor, lead to equal offsets and an equal timestamp().        *)
C2_PermutationsAgree ==
  \A i \in DOMAIN heap : \A cs \in Perms(calls[i]) :
    /\ Replay(heap[1], cs).off = heap[i].off
    /\ timestamp(Replay(heap[1], cs)) = timestamp(heap[i])

(* One calendar add of a unit, skipped when its offset is zero. *)
AddUnit(p, off, unit) == IF off[unit] # Zero THEN PlainAdd(p, unit, off[unit]) ELSE p

SeparateAdds(b) ==
  AddUnit(AddUnit(AddUnit(AddUnit(AddUnit(AddUnit(AddUnit(b.anchorPlain,
    b.off, "years"), b.off, "months"), b.off, "days"), b.off, "hours"),
    b.off, "minutes"), b.off, "seconds"), b.off, "milliseconds")

Modest(b) ==
  /\ b.anchorPlain.year \in 1900..2100
  /\ \A i \in DOMAIN offsetOrder : BLe(BAbs(b.off[offsetOrder[i]]), Of(1000))

(* C3: the target of a builder is its anchor after one separate calendar   *)
(* add per nonzero offset, in the order years, months, days, hours,        *)
(* minutes, seconds, milliseconds; years(1).months(-3) in either call      *)
(* order is (anchor + 1 year) - 3 months; and offsets of mixed signs on an *)
(* anchor far from the limits of the calendar resolve.                     *)
C3_SeparateAddsInOrder ==
  \A i \in DOMAIN heap :
    /\ targetPlain(heap[i]) = SeparateAdds(heap[i])
    /\ calls[i] \in Perms(<<Call("years", 1), Call("months", -3)>>) =>
         targetPlain(heap[i])
           = PlainAdd(PlainAdd(heap[i].anchorPlain, "years", Of(1)), "months", Of(-3))
    /\ (MixedSigns(heap[i].off) /\ Modest(heap[i])) => targetPlain(heap[i]).ok

C3_Witness ==
  \E i \in DOMAIN heap :
    /\ heap[i].anchorMs = Feb29
    /\ calls[i] = <<Call("months", -3), Call("years", 1)>>
    /\ targetPlain(heap[i]) = Plain([year |-> 2020, month |-> 11, day |-> 28], 0)

(* C4: every offset of every builder is an integer of magnitude at most    *)
(* 2^53 - 1.                                                               *)
C4_OffsetsSafe ==
  \A i \in DOMAIN heap : \A k \in DOMAIN offsetOrder :
    BLe(BAbs(heap[i].off[offsetOrder[k]]), MaxSafe)

Least(a, b) == IF a < b THEN a ELSE b

Clamped(a, t, n) ==
  /\ t.year * 12 + t.month = a.year * 12 + a.month + n
  /\ t.day = Least(a.day, DaysInMonth(t.year, t.month))
  /\ t.ms = a.ms

(* C5: after months(n) or years(n) alone the target is n (12 n) months     *)
(* from the anchor's month, on the anchor's day of the month or, where     *)
(* that month has no such day, on its last day; 2021-01-31 months(1) has   *)
(* the timestamp of 2021-02-28T00:00Z, 2020-02-29 years(-1) is 2019-02-28. *)
C5_MonthEndClamp ==
  \A i \in DOMAIN heap :
    /\ (Len(calls[i]) = 1 /\ calls[i][1][1] \in {"months", "years"}
          /\ targetPlain(heap[i]).ok) =>
         Clamped(heap[i].anchorPlain, targetPlain(heap[i]),
                 ToInt(calls[i][1][2]) * (IF calls[i][1][1] = "years" THEN 12 ELSE 1))
    /\ (heap[i].anchorMs = Jan31 /\ calls[i] = <<Call("months", 1)>>) =>
         timestamp(heap[i]) = Quot([hi |-> 18686, lo |-> 0], 1)
    /\ (heap[i].anchorMs = Feb29 /\ calls[i] = <<Call("years", -1)>>) =>
         targetPlain(heap[i]) = Plain([year |-> 2019, month |-> 2, day |-> 28], 0)

C5_Witness ==
  \E i \in DOMAIN heap :
    /\ heap[i].anchorMs = Jan31
    /\ calls[i] = <<Call("months", 1)>>
    /\ targetPlain(heap[i]).month = 2
    /\ targetPlain(heap[i]).day = 28

(* The divisor of a unit's getter. *)
Factor(unit) ==
  CASE unit = "weeks" -> MSWeek
    [] unit = "days" -> MSDay
    [] unit = "hours" -> MSHour
    [] unit = "minutes" -> MSMinute
    [] unit = "seconds" -> MSSecond
    [] unit = "milliseconds" -> 1

Got(op) == ret.kind = "value" /\ ret.op = op

GetThrew(op) == ret.kind = "throw" /\ ret.op = op /\ ret.arg = undefined

(* The epoch milliseconds of the target of a builder that resolves. *)
TargetMs(b) == EpochFromPlain(targetPlain(b)).v

(* C6: milliseconds() is the target's epoch ms minus the anchor's; the     *)
(* getters seconds() to weeks() are the number milliseconds() returns over *)
(* the unit's length; timestamp() is the target's epoch ms.                *)
C6_GettersExact ==
  /\ Got("timestamp") => ret.val = Quot(TargetMs(heap[ret.recv]), 1)
  /\ Got("milliseconds") =>
       ret.val = Quot(BSub(TargetMs(heap[ret.recv]), heap[ret.recv].anchorMs), 1)
  /\ (ret.kind = "value" /\ ret.op \in {"seconds", "minutes", "hours", "days", "weeks"}) =>
       ret.val = Quot(milliseconds(heap[ret.recv], undefined).val.num, Factor(ret.op))

NoRemainder(diff) ==
  diff.days = 0 /\ diff.hours = 0 /\ diff.minutes = 0 /\ diff.seconds = 0
    /\ diff.milliseconds = 0

(* The days a remainder is divided by, in three readings: the days of the  *)
(* month anchor + wholeMonths lies in ("of"), of the calendar month after  *)
(* it ("next"), and of the month that starts at anchor + wholeMonths       *)
(* ("span").                                                               *)
DimBy(apw, reading) ==
  CASE reading = "of" -> DaysInMonth(apw.year, apw.month)
    [] reading = "next" ->
         DaysInMonth(DateAddYM(apw, 0, 1).year, DateAddYM(apw, 0, 1).month)
    [] reading = "span" -> DayOf(DateAddYM(apw, 0, 1)) - DayOf(apw)

MonthsOfRem(whole, rem, dim) ==
  Months(whole, rem.days,
         rem.hours * MSHour + rem.minutes * MSMinute + rem.seconds * MSSecond
           + rem.milliseconds, dim, 1)

MonthsFrom(apw, t, whole, reading) ==
  MonthsOfRem(whole, PlainUntil(apw, t, "days"), DimBy(apw, reading))

MonthsWith(a, t, diff, reading) ==
  IF NoRemainder(diff) THEN Months(diff.years * 12 + diff.months, 0, 0, 0, 1)
  ELSE MonthsFrom(PlainAdd(a, "months", Of(diff.years * 12 + diff.months)), t,
                  diff.years * 12 + diff.months, reading)

MonthsBy(a, t, reading) == MonthsWith(a, t, PlainUntil(a, t, "months"), reading)

(* C7 as stated: months() is wholeMonths when the difference has no        *)
(* remainder, else wholeMonths plus the remainder in days over the days of *)
(* the month following anchor + wholeMonths (in either reading of it).     *)
C7_FollowingMonth ==
  Got("months") =>
    ret.val \in {MonthsBy(heap[ret.recv].anchorPlain, targetPlain(heap[ret.recv]), r) :
                   r \in {"next", "span"}}

(* C7: months() is wholeMonths when the difference anchor -> target in     *)
(* months has no remainder, else wholeMonths plus the remainder between    *)
(* anchor + wholeMonths and the target, in days, over the number of days   *)
(* of the calendar month that anchor + wholeMonths lies in.                *)
C7_MonthsFraction ==
  Got("months") =>
    ret.val = MonthsBy(heap[ret.recv].anchorPlain, targetPlain(heap[ret.recv]), "of")

C7_Witness ==
  /\ Got("months")
  /\ heap[ret.recv].anchorMs = Jan31
  /\ calls[ret.recv] = <<Call("days", 2)>>
  /\ ret.val = Months(0, 2, 0, 31, 1)

OnlyCall(i, unit) == Len(calls[i]) = 1 /\ calls[i][1][1] = unit

(* C8: years() is months() / 12, and after years(n) alone, on any anchor   *)
(* on which it resolves, it is n (12 n whole months over 12).              *)
C8_YearsOfYears ==
  Got("years") =>
    /\ ret.val = [monthsFraction(heap[ret.recv]) EXCEPT !.den = 12]
    /\ OnlyCall(ret.recv, "years") =>
         /\ ret.val.dim = 0 /\ ret.val.den = 12
         /\ Of(ret.val.whole) = Norm(12 * calls[ret.recv][1][2].hi,
                                     12 * calls[ret.recv][1][2].lo)

C8_Witness ==
  /\ Got("years")
  /\ heap[ret.recv].anchorMs = Feb29
  /\ calls[ret.recv] = <<Call("years", -1)>>
  /\ ret.val = Months(-12, 0, 0, 0, 12)

(* C9 as stated: after months(n) alone, for any integer n, months()        *)
(* returns n.                                                              *)
C9_AnyInteger ==
  ((Got("months") \/ GetThrew("months")) /\ OnlyCall(ret.recv, "months")) =>
    /\ ret.kind = "value"
    /\ ret.val.dim = 0
    /\ Of(ret.val.whole) = calls[ret.recv][1][2]

(* C9: after months(n) alone, on any anchor and for any n for which the    *)
(* target resolves, months() returns n exactly.                            *)
C9_MonthsOfMonths ==
  (Got("months") /\ OnlyCall(ret.recv, "months")) =>
    /\ ret.val.dim = 0 /\ ret.val.den = 1
    /\ Of(ret.val.whole) = calls[ret.recv][1][2]

C9_Witness ==
  /\ Got("months")
  /\ heap[ret.recv].anchorMs = Jan31
  /\ calls[ret.recv] = <<Call("months", 1)>>
  /\ targetPlain(heap[ret.recv]).day = 28
  /\ ret.val = Months(1, 0, 0, 0, 1)

Fails(r, msg) == r.kind = "throw" /\ r.caller = r.op /\ r.msg = msg

Classified(r) ==
  CASE r.arg.k \in {"nan", "inf", "ninf"} -> Fails(r, "value must be a finite integer")
    [] r.arg.k = "fin" /\ r.arg.f # 0 -> Fails(r, "value must be an integer (no decimals)")
    [] r.arg.k = "fin" /\ r.arg.f = 0 /\ ~BLe(BAbs(r.arg.i), MaxSafe) ->
         Fails(r, "value exceeds safe integer range")
    [] OTHER -> r.kind = "builder"

(* C10: a setter called with an argument fails with "<unit>: value must be *)
(* a finite integer" when it is NaN or infinite, with "<unit>: value must  *)
(* be an integer (no decimals)" when it has a fractional part, with        *)
(* "<unit>: value exceeds safe integer range" when it is an integer beyond *)
(* 2^53 - 1, and returns a builder otherwise; a call that fails adds no    *)
(* builder and changes none.                                               *)
C10_ArgumentClassified ==
  [][(ret'.kind \in {"throw", "builder"} /\ ret'.op \in Units /\ ret'.arg # undefined) =>
       /\ Classified(ret')
       /\ ret'.kind = "throw" => (heap' = heap /\ calls' = calls)]_vars

C10_Witness ==
  /\ ret.kind = "throw" /\ ret.op = "weeks" /\ ret.recv = 2
  /\ ret.arg = Frac(2, 70)
  /\ ret.caller = "weeks" /\ ret.msg = "value must be an integer (no decimals)"
  /\ Len(heap) = 2

(* Runs that query and extend builders of both kinds: fromDate on two      *)
(* anchors, years and months setters, one DurationBuilder made and         *)
(* extended by weeks(n), and every getter.                                 *)
MaxQuery == 3

QueryInputs == {[type |-> "number", num |-> NumOf(Jan31)],
                [type |-> "Date", num |-> NumOf(Feb29)]}

QueryArgs == {Num(1), Num(-2)}

NextQuery ==
  \/ \E d \in QueryInputs : FromDate(d)
  \/ \E i \in 1..MaxQuery, unit \in {"years", "months"} : \E n \in QueryArgs :
       Set(i, unit, n, MaxQuery)
  \/ \E i \in 1..MaxQuery, unit \in Units : Get(i, unit)
  \/ \E i \in 1..MaxQuery : Timestamp(i)
  \/ \E n \in DurationArgsOf("weeks") : Len(dur) = 0 /\ NewDuration("weeks", n)
  \/ \E n \in DurationArgsOf("weeks") : DurationSet(1, "weeks", n)
  \/ \E unit \in DurationUnits : DurationGet(1, unit)

SpecQuery == Init /\ [][NextQuery]_vars

(* Runs about months(): two month-end anchors, offsets of whole years,     *)
(* months and days that reach the days around the ends of months.          *)
MaxMonths == 3

MonthInputs == {[type |-> "number", num |-> NumOf(Jan31)],
                [type |-> "Date", num |-> NumOf(Feb29)]}

MonthArgsOf(unit) ==
  CASE unit = "years" -> {Num(1)}
    [] unit = "months" -> {Num(1), Num(2), Num(-1)}
    [] unit = "days" -> {Num(58), Num(59)}

NextMonths ==
  \/ \E d \in MonthInputs : FromDate(d)
  \/ \E i \in 1..MaxMonths, unit \in {"years", "months", "days"} :
       \E n \in MonthArgsOf(unit) : Set(i, unit, n, MaxMonths)
  \/ \E i \in 1..MaxMonths, unit \in Units : Get(i, unit)
  \/ \E i \in 1..MaxMonths : Timestamp(i)

SpecMonths == Init /\ [][NextMonths]_vars

(* Runs of fixed-length offsets only: chains of up to three calls of       *)
(* weeks, days and milliseconds on two anchors.                            *)
MaxFixed == 4

FixedInputs == {[type |-> "number", num |-> NumOf(Jan31)],
                [type |-> "number", num |-> NumOf(MinTime)]}

FixedArgsOf(unit) ==
  CASE unit = "weeks" -> {Num(-2)}
    [] unit = "days" -> {Num(2)}
    [] unit = "milliseconds" -> {NumOf(MaxSafe), NumOf(BNeg(MaxSafe))}

NextFixed ==
  \/ \E d \in FixedInputs : FromDate(d)
  \/ \E i \in 1..MaxFixed, unit \in {"weeks", "days", "milliseconds"} :
       \E n \in FixedArgsOf(unit) : Set(i, unit, n, MaxFixed)
  \/ \E i \in 1..MaxFixed, unit \in Units : Get(i, unit)
  \/ \E i \in 1..MaxFixed : Timestamp(i)

SpecFixed == Init /\ [][NextFixed]_vars

(* The integer part of a finite argument. *)
IntPart(a) == IF a.f # 0 /\ a.i.hi < 0 THEN BAdd(a.i, Of(1)) ELSE a.i

DurationClassified(r) ==
  CASE r.arg.k \in {"nan", "inf", "ninf"} -> Fails(r, "value must be a finite number")
    [] r.arg.k = "fin" /\ ~BLe(BAbs(IntPart(r.arg)), MaxSafe) ->
         Fails(r, "absolute value exceeds safe range")
    [] OTHER -> r.kind = "builder"

(* C11: a DurationBuilder setter (or factory) fails with "<unit>: value    *)
(* must be a finite number" on NaN and the infinities, with "<unit>:       *)
(* absolute value exceeds safe range" on a finite value whose integer part *)
(* is beyond 2^53 - 1, and accepts every other value, fractional and       *)
(* negative ones too; a call that fails changes no total and creates no    *)
(* object.                                                                 *)
C11_DurationArgumentClassified ==
  [][(ret'.kind \in {"throw", "builder"} /\ ret'.op \in DurationUnits
        /\ ret'.arg # undefined) =>
       /\ DurationClassified(ret')
       /\ ret'.kind = "throw" => (dur' = dur /\ dcalls' = dcalls)]_vars

C11_Witness ==
  /\ ret.kind = "throw" /\ ret.op = "days" /\ ret.recv = 1 /\ ret.arg = NaN
  /\ ret.caller = "days" /\ ret.msg = "value must be a finite number"
  /\ dcalls[1] = <<<<"weeks", Num(2)>>, <<"minutes", Frac(-1, 50)>>>>
  /\ dur[1].total = BSub(Norm(28, 0), Of(60000))

(* The fields of a string name a day and a time of day. *)
ValidFields(str) ==
  /\ str.iso /\ str.month \in 1..12 /\ str.time \in 0..MSDay
  /\ str.day >= 1 /\ str.day <= DaysInMonth(str.year, str.month)

(* A string or Date input that names no instant. *)
NoInstant(d) ==
  \/ d.type = "string" /\ ~ValidFields(d.str)
  \/ d.type = "Date" /\ d.num.k # "fin"

(* The epoch milliseconds an input names. *)
InstantNamed(d) ==
  IF d.type = "string"
  THEN Norm(EpochDay(d.str.year, d.str.month, d.str.day), d.str.time)
  ELSE d.num.i

Anchored(r, t) ==
  /\ r.kind = "builder"
  /\ heap[r.id] = [anchorPlain |-> PlainFromEpoch(t), anchorMs |-> t, off |-> ZERO]

(* The outcome of fromDate(d), given which inputs count as naming no       *)
(* instant.                                                                *)
FromDateOutcome(d, r, invalid) ==
  CASE d.type = "number" /\ d.num.k # "fin" -> Fails(r, "value must be a finite integer")
    [] d.type = "number" /\ d.num.k = "fin" /\ d.num.f # 0 ->
         Fails(r, "value must be an integer (no decimals)")
    [] d.type = "number" /\ d.num.k = "fin" /\ d.num.f = 0
         /\ ~BLe(BAbs(d.num.i), MaxSafe) -> Fails(r, "value exceeds safe integer range")
    [] d.type = "other" ->
         Fails(r, "Input must be a Date object, timestamp (number), or ISO date string")
    [] invalid -> Fails(r, "Invalid date input")
    [] OTHER -> Anchored(r, InstantNamed(d))

FromDateReturned == ret.kind \in {"throw", "builder"} /\ ret.op = "fromDate"

(* C12 as stated: fromDate fails with the matching message of the integer  *)
(* check on a number that is not finite, has decimals or is beyond         *)
(* 2^53 - 1, with "fromDate: Invalid date input" on a string or Date that  *)
(* names no instant, with "fromDate: Input must be ..." on any other type, *)
(* and otherwise returns a builder anchored at the instant with all        *)
(* offsets zero.                                                           *)
C12_AsStated == FromDateReturned => FromDateOutcome(ret.arg, ret, NoInstant(ret.arg))

(* C12, amended: as stated, and a safe integer beyond +-8.64e15, which no  *)
(* Date holds, fails with "fromDate: Invalid date input" as well.          *)
C12_FromDateOutcome ==
  FromDateReturned =>
    FromDateOutcome(ret.arg, ret,
      \/ NoInstant(ret.arg)
      \/ ret.arg.type = "number" /\ ~BLe(BAbs(ret.arg.num.i), MaxTime))

C12_Witness ==
  /\ FromDateReturned /\ ret.arg = [type |-> "number", num |-> NumOf(MaxSafe)]
  /\ Fails(ret, "Invalid date input") /\ heap = <<>>

(* A getter's value is the number 0. *)
IsZero(v) ==
  /\ v.ok
  /\ IF "num" \in DOMAIN v THEN v.num = Zero
     ELSE v.whole = 0 /\ v.fracDays = 0 /\ v.fracMs = 0

(* What a getter or timestamp() left: a value, or the engine's error. *)
FromGetter(r) == r.kind = "value" \/ (r.kind = "throw" /\ r.arg = undefined)

(* C13: timestamp() of fromDate(d) is the epoch milliseconds of the        *)
(* instant d names, whether d is a number, an ISO string or a Date, so the *)
(* three forms of one instant give the same value; and on every builder    *)
(* whose offsets are all zero timestamp() is the anchor's epoch            *)
(* milliseconds and each unit getter returns 0.                            *)
C13_SameInstant ==
  [][/\ (ret.kind = "builder" /\ ret.op = "fromDate" /\ FromGetter(ret')
           /\ ret'.recv = ret.id /\ ret'.op = "timestamp") =>
          (ret'.kind = "value" /\ ret'.val = Quot(InstantNamed(ret.arg), 1))
     /\ (FromGetter(ret') /\ heap[ret'.recv].off = ZERO) =>
          /\ ret'.kind = "value"
          /\ IF ret'.op = "timestamp"
               THEN ret'.val = Quot(heap[ret'.recv].anchorMs, 1)
               ELSE IsZero(ret'.val)]_vars

C13_Witness ==
  /\ Got("timestamp") /\ ret.recv = 1 /\ calls[1] = <<>> /\ heap[1].off = ZERO
  /\ heap[1] = fromDate([type |-> "string", str |-> ISO(2021, 1, 31, 0)]).b
  /\ heap[1] = fromDate([type |-> "Date", num |-> NumOf(Jan31)]).b
  /\ heap[1] = fromDate([type |-> "number", num |-> NumOf(Jan31)]).b
  /\ ret.val = Quot(Jan31, 1)

(* C14: an accepted setter call on a DurationBuilder returns its receiver: *)
(* no object is created, the receiver's total grows by n times the unit's  *)
(* length, so that each getter called on the receiver afterwards shows the *)
(* addition, and no other object changes.                                  *)
C14_SetterReturnsReceiver ==
  [][(ret'.kind = "builder" /\ ret'.op \in DurationUnits /\ ret'.recv # 0) =>
       /\ ret'.id = ret'.recv /\ Len(dur') = Len(dur)
       /\ dur'[ret'.recv].total =
            FAdd(dur[ret'.recv].total, FMul(ret'.arg, MS(ret'.op)))
       /\ \A unit \in DurationUnits :
            DurationMethod(dur'[ret'.recv], unit, undefined).val =
              Over(FAdd(dur[ret'.recv].total, FMul(ret'.arg, MS(ret'.op))), MS(unit))
       /\ \A j \in DOMAIN dur : j # ret'.recv => dur'[j] = dur[j]]_vars

(* base = weeks(2); a = base.days(7); b = base.hours(1.5): one object of   *)
(* 21 days and 1.5 hours.                                                  *)
C14_Witness ==
  /\ ret.kind = "builder" /\ ret.op = "hours" /\ ret.recv = 1 /\ ret.id = 1
  /\ Len(dur) = 1
  /\ dcalls[1] = <<<<"weeks", Num(2)>>, <<"days", Num(7)>>, <<"hours", Frac(1, 50)>>>>
  /\ dur[1].total = Norm(42, 10800000)

(* The object a getter was called on was made by one call unit(n). *)
MadeBy(unit) ==
  Len(dcalls[ret.recv]) = 1 /\ dcalls[ret.recv][1][1] = unit

(* The getter's quotient is n * 7, is n / 7 (n = the one argument). *)
IsTimes7(v, n) == v.ok /\ v.den = MSDay /\ v.halves = TimesDay(Times(Halves(n), 7))

IsOver7(v, n) ==
  v.ok /\ v.den = MSWeek /\ Times(v.halves, 7) = TimesDay(Times(Halves(n), 7))

WeeksDays ==
  /\ (Got("days") /\ MadeBy("weeks")) => IsTimes7(ret.val, dcalls[ret.recv][1][2])
  /\ (Got("weeks") /\ MadeBy("days")) => IsOver7(ret.val, dcalls[ret.recv][1][2])

(* C15 as stated: for every finite n, weeks(n) and days(n) return a        *)
(* builder, weeks(n).days() is n * 7 and days(n).weeks() is n / 7.         *)
C15_AsStated ==
  /\ (ret.kind \in {"builder", "throw"} /\ ret.op \in {"weeks", "days"} /\ ret.recv = 0
        /\ ret.arg.k = "fin") => ret.kind = "builder"
  /\ WeeksDays

(* C15, amended: for every n that weeks(n) and days(n) accept (a finite n  *)
(* whose integer part is within 2^53 - 1) and whose product with the       *)
(* unit's length is an exact double, weeks(n).days() is n * 7 and          *)
(* days(n).weeks() is n / 7.                                               *)
C15_WeeksDays == WeeksDays

C15_Witness ==
  /\ Got("days") /\ ret.recv = 1 /\ dcalls[1] = <<<<"weeks", Num(-2)>>>>
  /\ ret.val = Over(Norm(-28, 0), MSDay)

(* The sum of n * factor over a sequence of calls, as a number (in halves). *)
RECURSIVE SumOfProducts(_)
SumOfProducts(cs) ==
  IF cs = <<>> THEN Zero
  ELSE BAdd(FMul(cs[1][2], MS(cs[1][1])), SumOfProducts(Tail(cs)))

(* The object a sequence of accepted setter calls leads to from b. *)
RECURSIVE ReplayDuration(_, _)
ReplayDuration(b, cs) ==
  IF cs = <<>> THEN b
  ELSE ReplayDuration(DurationMethod(b, cs[1][1], cs[1][2]).b, Tail(cs))

(* C16: the total of every DurationBuilder is the sum of n * factor over   *)
(* the accepted calls made on it, the same in whatever order the calls are *)
(* made, and each getter returns the total over the unit's length; so      *)
(* milliseconds(x).seconds(y).milliseconds() is x + y * 1000 and           *)
(* weeks(k).weeks(-k).weeks() is 0.                                        *)
C16_TotalIsSum ==
  /\ \A i \in DOMAIN dur :
       /\ dur[i].total = SumOfProducts(dcalls[i])
       /\ \A cs \in Perms(dcalls[i]) : ReplayDuration(DurationBuilder, cs) = dur[i]
  /\ (ret.kind = "value" /\ ret.op \in DurationUnits) =>
       ret.val = Over(SumOfProducts(dcalls[ret.recv]), MS(ret.op))

(* C17: weeks(n) on a builder leaves the offsets that days(7 * n) leaves   *)
(* on it; on a builder made by weeks(n) alone days() is 7 * n and weeks()  *)
(* is n.                                                                   *)
C17_WeeksAreSevenDays ==
  /\ (ret.kind = "builder" /\ ret.op = "weeks") =>
       /\ Method(heap[ret.recv], "days", NumOf(FMul7(ret.arg.i))).kind = "builder"
       /\ Method(heap[ret.recv], "days", NumOf(FMul7(ret.arg.i))).b = heap[ret.id]
  /\ (FromGetter(ret) /\ ret.op \in {"days", "weeks"} /\ OnlyCall(ret.recv, "weeks")) =>
       /\ ret.kind = "value"
       /\ ret.val = Quot(Norm(7 * calls[ret.recv][1][2].hi, 7 * calls[ret.recv][1][2].lo),
                         Factor(ret.op))

(* The last two calls that led to a builder are u(k) and u(-k). *)
EndsOpposite(cs) ==
  /\ Len(cs) >= 2
  /\ cs[Len(cs)][1] = cs[Len(cs) - 1][1]
  /\ cs[Len(cs)][2] = BNeg(cs[Len(cs) - 1][2])

(* The builder before the last two calls. *)
Before(cs) == Replay(heap[1], SubSeq(cs, 1, Len(cs) - 2))

(* C18: a builder reached by b.u(k).u(-k) has the offsets of b, and so the *)
(* timestamp() and the getter values of b.                                 *)
C18_OppositeCallsCancel ==
  \A i \in DOMAIN heap : EndsOpposite(calls[i]) =>
    /\ heap[i].off = Before(calls[i]).off
    /\ timestamp(heap[i]) = timestamp(Before(calls[i]))
    /\ Getters(heap[i]) = Getters(Before(calls[i]))

(* The position of a date in the calendar's order. *)
DateKey(y, m, d) == y * 10000 + m * 100 + d

(* A 29 February lies after the date a and not after the same date four    *)
(* years on.                                                               *)
LeapDayWithin(a) ==
  \E y \in a.year..(a.year + 4) :
    /\ y % 4 = 0 /\ (y % 100 # 0 \/ y % 400 = 0)
    /\ DateKey(y, 2, 29) > DateKey(a.year, a.month, a.day)
    /\ DateKey(y, 2, 29) <= DateKey(a.year + 4, a.month, a.day)

DaysOfFourYears == FromGetter(ret) /\ ret.op = "days" /\ calls[ret.recv] = <<Call("years", 4)>>

C20_YearsOnly ==
  (Got("timestamp") /\ OnlyCall(ret.recv, "years") /\ ret.val.ok) =>
    /\ PlainFromEpoch(ret.val.num).year =
         heap[ret.recv].anchorPlain.year + ToInt(calls[ret.recv][1][2])
    /\ PlainFromEpoch(ret.val.num).month = heap[ret.recv].anchorPlain.month
    /\ PlainFromEpoch(ret.val.num).ms = heap[ret.recv].anchorPlain.ms

C20_Witness ==
  /\ Got("timestamp") /\ calls[ret.recv] = <<Call("years", -100)>>
  /\ heap[ret.recv].anchorPlain.year = 2023
  /\ ret.val.ok /\ PlainFromEpoch(ret.val.num).year = 1923
  /\ PlainFromEpoch(ret.val.num).month = 6 /\ PlainFromEpoch(ret.val.num).day = 15
  /\ PlainFromEpoch(ret.val.num).ms = 12 * MSHour

(* The only offset of b is in days, and the anchor's day plus it is no day *)
(* of the calendar.                                                        *)
DaysBeyond(b) ==
  /\ b.off = [ZERO EXCEPT !.days = b.off.days]
  /\ \/ ~IsSmall(b.off.days)
     \/ DayOf(b.anchorPlain) + ToInt(b.off.days) < -100000001
     \/ DayOf(b.anchorPlain) + ToInt(b.off.days) > 100000000

(* C21: a getter or timestamp() called on a builder whose offsets lead out *)
(* of the calendar's range throws the engine's RangeError and returns no   *)
(* value; a setter throws only its own argument errors, and with a valid   *)
(* argument returns a builder whatever the offsets are.                    *)
C21_RangeErrorPropagates ==
  /\ (FromGetter(ret)
        /\ (~SeparateAdds(heap[ret.recv]).ok \/ DaysBeyond(heap[ret.recv]))) =>
       (ret.kind = "throw" /\ ret.caller = "Temporal" /\ ret.msg = "RangeError")
  /\ (ret.kind \in {"throw", "builder"} /\ ret.op \in Units /\ ret.arg # undefined) =>
       /\ Classified(ret)
       /\ ret.kind = "throw" => (ret.caller = ret.op /\ ret.msg # "RangeError")

(* fromDate(-8640000000000000).weeks(-2).timestamp() throws. *)
C21_Witness ==
  /\ GetThrew("timestamp") /\ ret.caller = "Temporal" /\ ret.msg = "RangeError"
  /\ calls[ret.recv] = <<Call("weeks", -2)>>
  /\ heap[ret.recv].anchorMs = MinTime
  /\ heap[ret.recv].off.days = Of(-14)

(* Two outcomes of the same kind of getter on the same object. *)
SameQuery(r, s) ==
  /\ FromGetter(r) /\ FromGetter(s) /\ r.op = s.op /\ r.recv = s.recv
  /\ r.kind = s.kind
  /\ r.kind = "value" => DOMAIN r.val = DOMAIN s.val

(* C22: a getter or timestamp() call changes no builder of either kind;    *)
(* the same getter called again on the same builder returns what it        *)
(* returned; and after each setter call every builder, queried or not, is  *)
(* what its setter calls alone make of the anchor.                         *)
C22_NoFinalization ==
  [][/\ FromGetter(ret') =>
          (heap' = heap /\ calls' = calls /\ dur' = dur /\ dcalls' = dcalls)
     /\ SameQuery(ret, ret') => ret' = ret
     /\ heap' # heap =>
          \A i \in DOMAIN heap' : heap'[i] = Replay(heap'[1], calls'[i])
     /\ dur' # dur =>
          \A i \in DOMAIN dur' : dur'[i] = ReplayDuration(DurationBuilder, dcalls'[i])]_vars

(* b = fromDate(a).years(-2); b.years(); b.timestamp(); c = b.months(1);   *)
(* c.months()                                                              *)
C22_Witness ==
  /\ Got("months") /\ ret.recv = 3 /\ Len(dur) = 1
  /\ calls[2] = <<Call("years", -2)>>
  /\ calls[3] = <<Call("years", -2), Call("months", 1)>>
  /\ ret.val = Months(-23, 0, 0, 0, 1)

(* C23: a factory call that succeeds adds one new DurationBuilder whose    *)
(* total is 0 plus n times the unit's length, n being 1 when no argument   *)
(* is given, and changes no object that exists; a setter call changes the  *)
(* total and the getters of no object but its receiver.                    *)
C23_FactoryMakesFresh ==
  [][(ret'.kind = "builder" /\ ret'.op \in DurationUnits) =>
       /\ ret'.recv = 0 =>
            /\ ret'.id = Len(dur) + 1
            /\ dur' = Append(dur, [total |-> FMul(IF ret'.arg = undefined THEN Num(1)
                                                  ELSE ret'.arg, MS(ret'.op))])
       /\ \A j \in DOMAIN dur : j # ret'.recv =>
            /\ dur'[j] = dur[j]
            /\ \A unit \in DurationUnits :
                 DurationMethod(dur'[j], unit, undefined) =
                   DurationMethod(dur[j], unit, undefined)]_vars

(* a = days(); b = weeks(2); b.days(7): a is one day, b is 21 days. *)
C23_Witness ==
  /\ ret.kind = "builder" /\ ret.op = "days" /\ ret.recv = 2 /\ ret.id = 2
  /\ dcalls[1] = <<<<"days", Num(1)>>>>
  /\ dcalls[2] = <<<<"weeks", Num(2)>>, <<"days", Num(7)>>>>
  /\ dur[1].total = Norm(2, 0) /\ dur[2].total = Norm(42, 0)

(* The builder an instance was made as: its setter calls on the anchor. *)
AsMade(i) == Replay(heap[1], calls[i])

(* What a getter call on b returns or throws. *)
Query(b, op) ==
  IF op = "timestamp" THEN RetValue(timestamp(b)) ELSE Method(b, op, undefined)

(* C24: whatever calls were made before it, on its receiver or on any      *)
(* other builder, and in whatever order, a call obtains what it obtains on *)
(* the receiver as it was made: a getter its value (or the engine's        *)
(* error), a setter its new builder.                                       *)
C24_CallSitesIndependent ==
  [][/\ (FromGetter(ret') /\ ret'.op \in Units \cup {"timestamp"}) =>
          /\ ret'.kind = Query(AsMade(ret'.recv), ret'.op).kind
          /\ ret'.kind = "value" => ret'.val = Query(AsMade(ret'.recv), ret'.op).val
     /\ (ret'.kind = "builder" /\ ret'.op \in Units) =>
          heap'[ret'.id] = Method(AsMade(ret'.recv), ret'.op, ret'.arg).b]_vars

(* One instance shared by two call sites: one made years(1) of it and      *)
(* queried, the other then made days(2) of it.                             *)
C24_Witness ==
  /\ ret.kind = "builder" /\ ret.op = "days" /\ ret.recv = 1 /\ ret.id = 3
  /\ calls[2] = <<Call("years", 1)>> /\ calls[3] = <<Call("days", 2)>>
  /\ heap[3].off = [ZERO EXCEPT !.days = Of(2)]
  /\ heap[1].off = ZERO

(* The number a setter adds to its offset field: n, and 7 * n for weeks. *)
Added(unit, n) == IF unit = "weeks" THEN Norm(7 * n.hi, 7 * n.lo) ELSE n

(* C25: the builder a setter of unit u returns for a valid n has the       *)
(* receiver's offsets but for the field of u (days for weeks), which is    *)
(* the receiver's plus n (7 * n for weeks), and has the receiver's anchor  *)
(* civil date-time and epoch milliseconds, which at every step are the     *)
(* instant given to fromDate.                                              *)
C25_SetterFrame ==
  [][(ret'.kind = "builder" /\ ret'.op \in Units) =>
       /\ heap'[ret'.id].off =
            [heap[ret'.recv].off EXCEPT
               ![FieldOf(ret'.op)] = BAdd(@, Added(ret'.op, ret'.arg.i))]
       /\ heap'[ret'.id].anchorPlain = heap[ret'.recv].anchorPlain
       /\ heap'[ret'.id].anchorMs = heap[ret'.recv].anchorMs
       /\ heap'[ret'.id].anchorMs = heap[1].anchorMs
       /\ heap'[ret'.id].anchorPlain = PlainFromEpoch(heap[1].anchorMs)]_vars

(* p * k for k in 0..31, by additions. *)
RECURSIVE TimesSmall(_, _)
TimesSmall(p, k) == IF k = 0 THEN Zero ELSE BAdd(p, TimesSmall(p, k - 1))

Dim(v) == IF v.dim = 0 THEN 1 ELSE v.dim

(* The months value v times Dim(v) * k, in days and milliseconds. *)
MonthsScaled(v, k) ==
  TimesSmall(BAdd(Norm(v.whole * Dim(v), 0), Norm(v.fracDays, v.fracMs)), k)

(* v <= w for two values of months(). *)
MonthsLe(v, w) == BLe(MonthsScaled(v, Dim(w)), MonthsScaled(w, Dim(v)))

Resolves(b) == EpochFromPlain(targetPlain(b)).ok

(* C26: of two builders on one anchor the one with the earlier target has  *)
(* the smaller or equal months(); and the fraction months() adds to the    *)
(* whole months is less than 1 in magnitude.                               *)
C26_MonthsMonotone ==
  /\ \A i, j \in DOMAIN heap :
       (Resolves(heap[i]) /\ Resolves(heap[j])
          /\ BLe(TargetMs(heap[i]), TargetMs(heap[j]))) =>
         MonthsLe(monthsFraction(heap[i]), monthsFraction(heap[j]))
  /\ Got("months") =>
       BLt(BAbs(Norm(ret.val.fracDays, ret.val.fracMs)), Norm(Dim(ret.val), 0))

(* The calls that made a builder are one years(y) and one months(m). *)
YearsAndMonths(cs) ==
  Len(cs) = 2 /\ {cs[1][1], cs[2][1]} = {"years", "months"}

ArgOf(cs, unit) == ToInt(IF cs[1][1] = unit THEN cs[1][2] ELSE cs[2][2])

TotalMonths(cs) == 12 * ArgOf(cs, "years") + ArgOf(cs, "months")

(* The value v of months() is the integer n. *)
IsWhole(v, n) ==
  v.ok /\ Norm(v.fracDays, v.fracMs) = Norm((n - v.whole) * Dim(v), 0)

(* Adding y years and then m months to the anchor a reaches the date that  *)
(* adding 12 y + m months reaches.                                         *)
SameAsOneStep(a, cs) ==
  PlainAdd(PlainAdd(a, "years", Of(ArgOf(cs, "years"))), "months",
           Of(ArgOf(cs, "months")))
    = PlainAdd(a, "months", Of(TotalMonths(cs)))

(* C27 as stated: on a builder made by years(y) and months(m), months() is *)
(* 12 y + m, whichever step clamps the day and whatever the signs.         *)
C27_AsStated ==
  (Got("months") /\ YearsAndMonths(calls[ret.recv])) =>
    IsWhole(ret.val, TotalMonths(calls[ret.recv]))

(* C27, amended: on a builder made by years(y) and months(m), months() is  *)
(* 12 y + m and years() is that over 12 whenever the two steps reach the   *)
(* date that 12 y + m months from the anchor reach in one step, clamped    *)
(* days and opposite signs included.                                       *)
C27_YearsAndMonths ==
  (ret.kind = "value" /\ ret.op \in {"months", "years"}
     /\ YearsAndMonths(calls[ret.recv])
     /\ SameAsOneStep(heap[1].anchorPlain, calls[ret.recv])) =>
    ret.val = Months(TotalMonths(calls[ret.recv]), 0, 0, 0,
                     IF ret.op = "years" THEN 12 ELSE 1)

(* 2021-01-31 years(1).months(1): the month step clamps to 2022-02-28. *)
C27_Witness ==
  /\ Got("months") /\ heap[ret.recv].anchorMs = Jan31
  /\ calls[ret.recv] = <<Call("years", 1), Call("months", 1)>>
  /\ targetPlain(heap[ret.recv]).day = 28 /\ targetPlain(heap[ret.recv]).year = 2022
  /\ ret.val = Months(13, 0, 0, 0, 1)

(* The calls that made a RelativeBuilder, as calls on a DurationBuilder. *)
AsDuration(cs) == [k \in DOMAIN cs |-> <<cs[k][1], NumOf(cs[k][2])>>]

FixedUnitsOnly(cs) == \A k \in DOMAIN cs : cs[k][1] \in DurationUnits

(* C28: on a builder made by calls of weeks, days, hours, minutes, seconds *)
(* and milliseconds with integer arguments, on any anchor, milliseconds()  *)
(* returns what milliseconds() returns on the DurationBuilder made by the  *)
(* same calls.                                                             *)
C28_AgreesWithDuration ==
  (FromGetter(ret) /\ ret.op = "milliseconds" /\ FixedUnitsOnly(calls[ret.recv])) =>
    /\ ret.kind = "value"
    /\ Times(ret.val.num, 2) =
         ReplayDuration(DurationBuilder, AsDuration(calls[ret.recv])).total

(* fromDate(t) returned or threw, t a number that passes the integer check. *)
SafeNumberGiven(r) ==
  /\ r.kind \in {"throw", "builder"} /\ r.op = "fromDate" /\ r.arg.type = "number"
  /\ r.arg.num.k = "fin" /\ r.arg.num.f = 0 /\ BLe(BAbs(r.arg.num.i), MaxSafe)

TimestampOfNew(r, s) ==
  r.kind = "builder" /\ r.op = "fromDate" /\ r.arg.type = "number"
    /\ FromGetter(s) /\ s.op = "timestamp" /\ s.recv = r.id

(* C29 as stated: for every integer t of magnitude at most 2^53 - 1,       *)
(* fromDate(t) returns a builder, and timestamp() of it is t.              *)
C29_AsStated ==
  [][/\ SafeNumberGiven(ret') => ret'.kind = "builder"
     /\ TimestampOfNew(ret, ret') =>
          (ret'.kind = "value" /\ ret'.val = Quot(ret.arg.num.i, 1))]_vars

(* C29, amended: for every integer t of magnitude at most 8.64e15,         *)
(* fromDate(t) returns a builder anchored at t, and timestamp() of it is   *)
(* t; for a safe integer beyond that it fails with "fromDate: Invalid date *)
(* input".                                                                 *)
C29_NumbersAccepted ==
  [][/\ SafeNumberGiven(ret') =>
          IF BLe(BAbs(ret'.arg.num.i), MaxTime)
          THEN ret'.kind = "builder" /\ heap'[ret'.id].anchorMs = ret'.arg.num.i
          ELSE Fails(ret', "Invalid date input")
     /\ TimestampOfNew(ret, ret') =>
          (ret'.kind = "value" /\ ret'.val = Quot(ret.arg.num.i, 1))]_vars

C29_Witness ==
  /\ Got("timestamp") /\ ret.recv = 1 /\ Len(heap) = 1
  /\ heap[1] = fromDate([type |-> "number", num |-> NumOf(MinTime)]).b
  /\ ret.val = Quot(MinTime, 1)

(* The calendar difference anchor -> target of b, largest unit month. *)
DiffOf(b) == PlainUntil(b.anchorPlain, targetPlain(b), "months")

OrOf(diff) ==
  BitOr(BitOr(BitOr(BitOr(diff.days, diff.hours), diff.minutes), diff.seconds),
        diff.milliseconds)

(* C30: where months() or years() returns, the fraction of the remainder   *)
(* was added if and only if one of the days, hours, minutes, seconds and   *)
(* milliseconds of the difference anchor -> target is not 0, and the       *)
(* bitwise OR of the five is 0 exactly when all five are 0, negative       *)
(* differences included.                                                   *)
C30_RemainderBranch ==
  (ret.kind = "value" /\ ret.op \in {"months", "years"}) =>
    /\ ret.val.dim # 0 <=> ~NoRemainder(DiffOf(heap[ret.recv]))
    /\ OrOf(DiffOf(heap[ret.recv])) = 0 <=> NoRemainder(DiffOf(heap[ret.recv]))

(* fromDate('2021-01-31T00:00:00Z').minutes(-30).months(): a negative      *)
(* remainder of 30 minutes over the 31 days of January.                    *)
C30_Witness ==
  /\ Got("months") /\ heap[ret.recv].anchorMs = Jan31
  /\ calls[ret.recv] = <<Call("minutes", -30)>>
  /\ DiffOf(heap[ret.recv]).minutes = -30
  /\ ret.val = Months(0, 0, -1800000, 31, 1)

====
